---------------------------- MODULE Spec2Model ----------------------------
(***************************************************************************)
(* Fraud detection via personalized PageRank: the graph loader             *)
(* (loadGraphFromFile with NodeMapper and CSRGraph), the power-iteration   *)
(* engine (PPREngine::compute) and the random-walk engine                  *)
(* (MonteCarloEngine::compute).                                            *)
(*                                                                         *)
(* A double is modelled by an exact rational <<n, d>> in lowest terms with *)
(* d > 0.  A vector is a function on 0 .. size-1, so indices are those of  *)
(* the source.                                                             *)
(***************************************************************************)
EXTENDS Integers, Sequences, FiniteSets, TLC

\* ------------------------------------------------------------------------
\* Bounds of the model
\* ------------------------------------------------------------------------
MaxLines == 3
MaxEdges == 2
MaxSeeds == 2
MaxWalks == 2
MaxVisits == 4

\* ------------------------------------------------------------------------
\* Exact arithmetic standing for double
\* ------------------------------------------------------------------------
RECURSIVE Gcd(_, _)
Gcd(a, b) == IF b = 0 THEN a ELSE Gcd(b, a % b)

IAbs(x) == IF x < 0 THEN -x ELSE x

Rat(n, d) ==
    LET s == IF d < 0 THEN -1 ELSE 1
        g == Gcd(IAbs(n), IAbs(d))
    IN  <<(s * n) \div g, (s * d) \div g>>

RZero == <<0, 1>>
ROne == <<1, 1>>

RAdd(x, y) ==
    LET g == Gcd(x[2], y[2])
        l == (x[2] \div g) * y[2]
    IN  Rat(x[1] * (l \div x[2]) + y[1] * (l \div y[2]), l)

RNeg(x) == <<-x[1], x[2]>>
RSub(x, y) == RAdd(x, RNeg(y))

RMul(x, y) ==
    LET g1 == Gcd(IAbs(x[1]), y[2])
        g2 == Gcd(IAbs(y[1]), x[2])
    IN  Rat((x[1] \div g1) * (y[1] \div g2), (x[2] \div g2) * (y[2] \div g1))

RDiv(x, y) == RMul(x, Rat(y[2], y[1]))

RLt(x, y) == x[1] * y[2] < y[1] * x[2]
RLe(x, y) == x[1] * y[2] <= y[1] * x[2]

\* fabs
RAbs(x) == <<IAbs(x[1]), x[2]>>

\* the sum f[lo] + ... + f[hi-1], accumulated left to right from 0.0
RECURSIVE RSumRange(_, _, _)
RSumRange(f, lo, hi) ==
    IF hi <= lo THEN RZero ELSE RAdd(RSumRange(f, lo, hi - 1), f[hi - 1])

RECURSIVE ISumRange(_, _, _)
ISumRange(f, lo, hi) ==
    IF hi <= lo THEN 0 ELSE ISumRange(f, lo, hi - 1) + f[hi - 1]

\* vector<T>(n, x)
Fill(n, x) == [i \in 0 .. n - 1 |-> x]

\* vector::push_back
PushBack(v, n, x) == [i \in 0 .. n |-> IF i = n THEN x ELSE v[i]]


\* ------------------------------------------------------------------------
\* State
\* ------------------------------------------------------------------------
VARIABLES
    pc,           \* position in the program
    consumed,     \* the lines getline has returned so far
    id_to_name,   \* NodeMapper: id_to_name (name_to_id is its inverse)
    temp_edges,   \* loadGraphFromFile: temp_edges
    graph,        \* the CSRGraph
    seeds, alpha, epsilon, total_walks,   \* the arguments of compute
    p, r, r_new, dead_mass, diff, iter, iter_count,   \* PPREngine::compute
    sweeps,       \* history: the sweeps PPREngine::compute has performed
    visits,       \* MonteCarloEngine::compute: visits
    walk,         \* the loop counter i of line 399: the walks finished
    curr,         \* the node the walk is at
    draw,         \* the value of prob(gen) at line 406
    result        \* the AlgorithmResult returned (scores, iterations)

loaderVars == <<consumed, id_to_name, temp_edges>>
argVars == <<seeds, alpha, epsilon, total_walks>>
pprVars == <<p, r, r_new, dead_mass, diff, iter, iter_count, sweeps>>
mcVars == <<visits, walk, curr, draw>>
vars == <<pc, loaderVars, graph, argVars, pprVars, mcVars, result>>

\* ------------------------------------------------------------------------
\* Input text.  A token is a sequence of characters, a line a sequence of
\* tokens (the whitespace between them dropped).
\* ------------------------------------------------------------------------
Names == {<<"a">>, <<"b">>, <<"c">>}

\* third columns: none is written as the two-token line
LoadWeights == {<<"0">>, <<"-", "2", ".", "5">>, <<"x">>}
EngineWeights == {<<"2">>}

EdgeLines(weights) ==
    {<<u, v>> : u \in Names, v \in Names}
        \cup {<<u, v, w>> : u \in Names, v \in Names, w \in weights}

LoadLines == EdgeLines(LoadWeights) \cup {<<>>, <<<<"#">>, <<"a">>>>, <<<<"a">>>>}
EngineLines == EdgeLines(EngineWeights)

DigitVal(c) ==
    CASE c = "0" -> 0 [] c = "1" -> 1 [] c = "2" -> 2 [] c = "3" -> 3
      [] c = "4" -> 4 [] c = "5" -> 5 [] c = "6" -> 6 [] c = "7" -> 7
      [] c = "8" -> 8 [] c = "9" -> 9 [] OTHER -> -1

\* the digits of tok from position i on: <<value, scale, next position>>
RECURSIVE ScanDigits(_, _, _, _)
ScanDigits(tok, i, acc, scale) ==
    IF i <= Len(tok) /\ DigitVal(tok[i]) >= 0
    THEN ScanDigits(tok, i + 1, acc * 10 + DigitVal(tok[i]), scale * 10)
    ELSE <<acc, scale, i>>

\* ss >> w_in for a double: sign, digits, '.', digits; fails without a digit
ParseDouble(tok) ==
    LET signed == Len(tok) >= 1 /\ tok[1] \in {"-", "+"}
        start == IF signed THEN 2 ELSE 1
        ip == ScanDigits(tok, start, 0, 1)
        dot == ip[3] <= Len(tok) /\ tok[ip[3]] = "."
        fp == IF dot THEN ScanDigits(tok, ip[3] + 1, 0, 1) ELSE <<0, 1, ip[3]>>
        ndigits == (ip[3] - start) + (IF dot THEN fp[3] - ip[3] - 1 ELSE 0)
        mag == RAdd(Rat(ip[1], 1), Rat(fp[1], fp[2]))
    IN  [ok |-> ndigits > 0,
         val |-> IF signed /\ tok[1] = "-" THEN RNeg(mag) ELSE mag]

\* ------------------------------------------------------------------------
\* NodeMapper
\* ------------------------------------------------------------------------
Known(names, name) == \E k \in 1 .. Len(names) : names[k] = name

\* getId: <<id, id_to_name afterwards>>
getId(names, name) ==
    IF ~Known(names, name)
    THEN <<Len(names), Append(names, name)>>
    ELSE <<(CHOOSE k \in 1 .. Len(names) : names[k] = name) - 1, names>>

getNumNodes(names) == Len(names)

\* ------------------------------------------------------------------------
\* loadGraphFromFile
\* ------------------------------------------------------------------------
DefaultWeight == ROne
ZeroWeight == Rat(1, 10000)

IsSkipped(ln) ==
    \/ ln = <<>>
    \/ ln[1][1] \in {"#", "%"}
    \/ Len(ln) < 2

\* lines 263-271: the weight stored for a line that has both node columns
LineWeightNoAbs(ln) ==
    LET w_in == IF Len(ln) >= 3 THEN ParseDouble(ln[3]) ELSE [ok |-> FALSE, val |-> RZero]
        weight == IF w_in.ok THEN w_in.val ELSE DefaultWeight
    IN  IF weight = RZero THEN ZeroWeight ELSE weight

LineWeight(ln) ==
    LET w_in == IF Len(ln) >= 3 THEN ParseDouble(ln[3]) ELSE [ok |-> FALSE, val |-> RZero]
        weight == IF w_in.ok THEN RAbs(w_in.val) ELSE DefaultWeight
    IN  IF weight = RZero THEN ZeroWeight ELSE weight

\* CSRGraph(n)
CSRGraph(n) ==
    [num_nodes |-> n, num_edges |-> 0,
     row_ptr |-> Fill(n + 1, 0),
     col_indices |-> Fill(0, 0),
     edge_weights |-> Fill(0, RZero),
     out_weight_sum |-> Fill(n, RZero)]

\* lines 284-285: adj[i], in the order of temp_edges
Adj(edges, i) == SelectSeq(edges, LAMBDA e : e.u = i)

\* lines 296-301: the neighbours adj[j..] of node i appended at cursor
RECURSIVE FillRow(_, _, _, _, _)
FillRow(g, nbrs, j, cursor, sum_w) ==
    IF j > Len(nbrs) THEN <<g, cursor, sum_w>>
    ELSE FillRow([g EXCEPT
                    !.col_indices = PushBack(@, cursor, nbrs[j].v),
                    !.edge_weights = PushBack(@, cursor, nbrs[j].w)],
                 nbrs, j + 1, cursor + 1, RAdd(sum_w, nbrs[j].w))

\* lines 292-304
RECURSIVE FillRowsFrom(_, _, _, _)
FillRowsFrom(g, edges, i, cursor) ==
    IF i >= g.num_nodes THEN [g EXCEPT !.row_ptr[g.num_nodes] = cursor]
    ELSE LET row == FillRow([g EXCEPT !.row_ptr[i] = cursor],
                            Adj(edges, i), 1, cursor, RZero)
         IN  FillRowsFrom([row[1] EXCEPT !.out_weight_sum[i] = row[3]],
                          edges, i + 1, row[2])

\* BuildCSR without line 289 (num_edges left at 0)
BuildCSRNoCount(names, edges) ==
    FillRowsFrom(CSRGraph(getNumNodes(names)), edges, 0, 0)

\* lines 280-306
BuildCSR(names, edges) ==
    FillRowsFrom([CSRGraph(getNumNodes(names)) EXCEPT !.num_edges = Len(edges)],
                 edges, 0, 0)

NoResult == [scores |-> <<>>, iterations |-> -1]

Init ==
    /\ pc = "read"
    /\ consumed = <<>>
    /\ id_to_name = <<>>
    /\ temp_edges = <<>>
    /\ graph = CSRGraph(0)
    /\ seeds = <<>> /\ alpha = RZero /\ epsilon = RZero /\ total_walks = 0
    /\ p = <<>> /\ r = <<>> /\ r_new = <<>> /\ dead_mass = RZero
    /\ diff = RZero /\ iter = 0 /\ iter_count = 0 /\ sweeps = 0
    /\ visits = <<>> /\ walk = 0 /\ curr = 0 /\ draw = RZero
    /\ result = NoResult

\* lines 258-277, one turn of the loop for the line ln
ReadLine(ln) ==
    /\ pc = "read"
    /\ Len(consumed) < MaxLines
    /\ consumed' = Append(consumed, ln)
    /\ IF IsSkipped(ln)
       THEN UNCHANGED <<id_to_name, temp_edges>>
       ELSE LET gu == getId(id_to_name, ln[1])
                gv == getId(gu[2], ln[2])
            IN  /\ id_to_name' = gv[2]
                /\ temp_edges' = Append(temp_edges,
                                        [u |-> gu[1], v |-> gv[1], w |-> LineWeight(ln)])
    /\ UNCHANGED <<pc, graph, argVars, pprVars, mcVars, result>>

\* Ids are given in the order names first appear, so the graph does not
\* depend on what the names are: the files read name their nodes a, b, c in
\* the order they first appear.
NameOrder == <<<<"a">>, <<"b">>, <<"c">>>>

InNameOrder(names) == names = SubSeq(NameOrder, 1, Len(names))

\* the files of the loader's properties: up to MaxLines lines, with blank,
\* comment and one-column lines and all the weight columns
ReadLoadLine ==
    \E ln \in LoadLines :
        /\ ReadLine(ln)
        /\ InNameOrder(id_to_name')

\* the files of the engines' properties: up to MaxEdges edge lines
ReadEngineLine ==
    \E ln \in EngineLines :
        /\ Len(consumed) < MaxEdges
        /\ ReadLine(ln)
        /\ InNameOrder(id_to_name')

\* getline fails at the end of the file; lines 278-306
EndOfFile ==
    /\ pc = "read"
    /\ graph' = BuildCSR(id_to_name, temp_edges)
    /\ pc' = "loaded"
    /\ UNCHANGED <<loaderVars, argVars, pprVars, mcVars, result>>

NextLoad == ReadLoadLine \/ EndOfFile

SpecLoad == Init /\ [][NextLoad]_vars


\* ------------------------------------------------------------------------
\* Arguments of the engines
\* ------------------------------------------------------------------------
\* seed lists: any ids from -1 to N (N and -1 are outside [0, N)), repeats
\* included, as a vector indexed from 0
SeedLists(n) == UNION {[0 .. k - 1 -> -1 .. n] : k \in 0 .. MaxSeeds}

\* alpha: the ends of [0, 1] and a value inside.  With alpha = 0, which
\* compute accepts like any other double, the iterate of a periodic graph
\* never settles: these are the runs that reach the sweep limit.
Alphas == {RZero, Rat(1, 2), ROne}

\* epsilon: 2 is the largest L1 difference two distributions can have
Epsilons == {Rat(1, 2), Rat(2, 1)}

\* values of prob(gen), uniform on [0, 1)
Draws == {RZero, Rat(1, 2), Rat(3, 4)}

Size(v) == Cardinality(DOMAIN v)

\* ------------------------------------------------------------------------
\* PPREngine::compute
\* ------------------------------------------------------------------------
MaxIter == 100

\* lines 333-334 from seed k on; a negative id passes the test id < N and is
\* written outside p: when the run survives it, p is as before
RECURSIVE SetSeedMass(_, _, _, _, _)
SetSeedMass(pv, sd, k, n, mass) ==
    IF k >= Size(sd) THEN pv
    ELSE SetSeedMass(IF sd[k] < n /\ sd[k] >= 0 THEN [pv EXCEPT ![sd[k]] = mass] ELSE pv,
                     sd, k + 1, n, mass)

\* Personalization falling back to the uniform vector for an empty seed list
PersonalizationUniform(g, sd) ==
    IF Size(sd) # 0
    THEN SetSeedMass(Fill(g.num_nodes, RZero), sd, 0, g.num_nodes, Rat(1, Size(sd)))
    ELSE Fill(g.num_nodes, Rat(1, g.num_nodes))

\* lines 331-335
Personalization(g, sd) ==
    IF Size(sd) # 0
    THEN SetSeedMass(Fill(g.num_nodes, RZero), sd, 0, g.num_nodes, Rat(1, Size(sd)))
    ELSE Fill(g.num_nodes, RZero)

\* lines 348-352: the edges k .. hi-1 of node u
RECURSIVE PushEdges(_, _, _, _, _, _)
PushEdges(g, rv, rn, u, k, hi) ==
    IF k >= hi THEN rn
    ELSE LET v == g.col_indices[k]
             w == g.edge_weights[k]
         IN  PushEdges(g, rv,
                       [rn EXCEPT ![v] = RAdd(@, RMul(rv[u], RDiv(w, g.out_weight_sum[u])))],
                       u, k + 1, hi)

\* lines 346-357 from node u on: <<r_new, dead_mass>>
RECURSIVE Scatter(_, _, _, _, _)
Scatter(g, rv, rn, dead, u) ==
    IF u >= g.num_nodes THEN <<rn, dead>>
    ELSE IF RLt(RZero, g.out_weight_sum[u])
    THEN Scatter(g, rv, PushEdges(g, rv, rn, u, g.row_ptr[u], g.row_ptr[u + 1]), dead, u + 1)
    ELSE Scatter(g, rv, rn, RAdd(dead, rv[u]), u + 1)

\* Teleport with the dead-end mass re-injected undamped
TeleportUndamped(a, rn_i, p_i, dead) ==
    RAdd(RAdd(RMul(RSub(ROne, a), rn_i), RMul(a, p_i)), RMul(dead, p_i))

\* lines 362-364
Teleport(a, rn_i, p_i, dead) ==
    RAdd(RAdd(RMul(RSub(ROne, a), rn_i), RMul(a, p_i)),
         RMul(RMul(RSub(ROne, a), dead), p_i))

\* lines 360-367 from node i on: <<r_new, diff>>
RECURSIVE Combine(_, _, _, _, _, _, _, _)
Combine(n, a, pv, rv, rn, dead, d, i) ==
    IF i >= n THEN <<rn, d>>
    ELSE LET val == Teleport(a, rn[i], pv[i], dead)
         IN  Combine(n, a, pv, rv, [rn EXCEPT ![i] = val], dead,
                     RAdd(d, RAbs(RSub(val, rv[i]))), i + 1)

HasNegativeSeed(sd) == \E k \in DOMAIN sd : sd[k] < 0

\* lines 327-338
PPRCall(sd, a, e) ==
    /\ pc = "loaded"
    /\ seeds' = sd /\ alpha' = a /\ epsilon' = e
    /\ p' = Personalization(graph, sd)
    /\ r' = p'
    /\ r_new' = Fill(graph.num_nodes, RZero)
    /\ iter' = 0 /\ iter_count' = 0 /\ sweeps' = 0
    \* the write p[id] with id < 0 lands outside p: the run dies or goes on
    /\ \/ pc' = "ppr_loop"
       \/ HasNegativeSeed(sd) /\ pc' = "crash"
    /\ UNCHANGED <<loaderVars, graph, total_walks, dead_mass, diff, mcVars, result>>

PPRStart == \E sd \in SeedLists(graph.num_nodes), a \in Alphas, e \in Epsilons : PPRCall(sd, a, e)

\* lines 341-367: one sweep, up to the assignment of r
PPRSweep ==
    /\ pc = "ppr_loop"
    /\ iter < MaxIter
    /\ \E sc \in {Scatter(graph, r, Fill(graph.num_nodes, RZero), RZero, 0)} :
       \E cb \in {Combine(graph.num_nodes, alpha, p, r, sc[1], sc[2], RZero, 0)} :
           /\ dead_mass' = sc[2]
           /\ r_new' = cb[1]
           /\ diff' = cb[2]
    /\ sweeps' = sweeps + 1
    /\ pc' = "ppr_test"
    /\ UNCHANGED <<loaderVars, graph, argVars, p, r, iter, iter_count, mcVars, result>>

\* PPRAdvance without line 369
PPRAdvanceNoAssign ==
    /\ pc = "ppr_test"
    /\ iter_count' = iter + 1
    /\ IF RLt(diff, epsilon)
       THEN /\ pc' = "ppr_return" /\ UNCHANGED iter
       ELSE /\ iter' = iter + 1
            /\ pc' = IF iter + 1 < MaxIter THEN "ppr_loop" ELSE "ppr_return"
    /\ UNCHANGED <<loaderVars, graph, argVars, p, r, r_new, dead_mass, diff, sweeps, mcVars, result>>

\* lines 369-371 and the loop's ++iter
PPRAdvance ==
    /\ pc = "ppr_test"
    /\ r' = r_new
    /\ iter_count' = iter + 1
    /\ IF RLt(diff, epsilon)
       THEN /\ pc' = "ppr_return" /\ UNCHANGED iter
       ELSE /\ iter' = iter + 1
            /\ pc' = IF iter + 1 < MaxIter THEN "ppr_loop" ELSE "ppr_return"
    /\ UNCHANGED <<loaderVars, graph, argVars, p, r_new, dead_mass, diff, sweeps, mcVars, result>>

\* lines 374-375
PPRReturn ==
    /\ pc = "ppr_return"
    /\ result' = [scores |-> r, iterations |-> iter_count]
    /\ pc' = "ppr_done"
    /\ UNCHANGED <<loaderVars, graph, argVars, pprVars, mcVars>>

NextPPR == ReadEngineLine \/ EndOfFile \/ PPRStart \/ PPRSweep \/ PPRAdvance \/ PPRReturn

SpecPPR == Init /\ [][NextPPR]_vars

\* ------------------------------------------------------------------------
\* MonteCarloEngine::compute
\* ------------------------------------------------------------------------
InRange(g, id) == id \in 0 .. g.num_nodes - 1

\* lines 413-419 from edge k on: the node the walk is at afterwards
RECURSIVE SelectNext(_, _, _, _, _, _)
SelectNext(g, k, hi, acc, target, cur) ==
    IF k >= hi THEN cur
    ELSE IF RLe(target, RAdd(acc, g.edge_weights[k])) THEN g.col_indices[k]
    ELSE SelectNext(g, k + 1, hi, RAdd(acc, g.edge_weights[k]), target, cur)

\* Normalize dividing by the number of nodes
NormalizeByNodes(v, n) ==
    LET total == ISumRange(v, 0, n)
    IN  [i \in 0 .. n - 1 |-> IF total > 0 THEN Rat(v[i], n) ELSE RZero]

\* lines 424-429
Normalize(v, n) ==
    LET total == ISumRange(v, 0, n)
    IN  [i \in 0 .. n - 1 |-> IF total > 0 THEN Rat(v[i], total) ELSE RZero]

\* lines 387-396
MCCall(sd, a, tw) ==
    /\ pc = "loaded"
    /\ seeds' = sd /\ alpha' = a /\ total_walks' = tw
    /\ visits' = Fill(graph.num_nodes, 0)
    /\ IF Size(sd) = 0
       THEN /\ result' = [scores |-> Fill(graph.num_nodes, RZero), iterations |-> 0]
            /\ pc' = "mc_done"
       ELSE /\ pc' = "mc_walks"
            /\ UNCHANGED result
    /\ walk' = 0
    /\ UNCHANGED <<loaderVars, graph, epsilon, pprVars, curr, draw>>

MCStart == \E sd \in SeedLists(graph.num_nodes), a \in Alphas, tw \in 0 .. MaxWalks : MCCall(sd, a, tw)

\* lines 399-400
MCStartWalk ==
    /\ pc = "mc_walks"
    /\ walk < total_walks
    /\ \E j \in 0 .. Size(seeds) - 1 : curr' = seeds[j]
    /\ pc' = "mc_visit"
    /\ UNCHANGED <<loaderVars, graph, argVars, pprVars, visits, walk, draw, result>>

\* StopDraw with the comparison turned round
StopDrawReversed(d, a) == RLt(a, d)

\* lines 403-406: the visit is counted and the draw is below alpha
StopDraw(d, a) == RLt(d, a)

MCStop ==
    /\ pc = "mc_visit"
    /\ InRange(graph, curr)
    /\ \E d \in Draws : StopDraw(d, alpha) /\ draw' = d
    /\ visits' = [visits EXCEPT ![curr] = @ + 1]
    /\ walk' = walk + 1
    /\ pc' = "mc_walks"
    /\ UNCHANGED <<loaderVars, graph, argVars, pprVars, curr, result>>

\* lines 403-407: the visit is counted, the draw is not below alpha and
\* the node has no outgoing weight
MCDeadEnd ==
    /\ pc = "mc_visit"
    /\ InRange(graph, curr)
    /\ \E d \in Draws : ~StopDraw(d, alpha) /\ draw' = d
    /\ graph.out_weight_sum[curr] = RZero
    /\ visits' = [visits EXCEPT ![curr] = @ + 1]
    /\ walk' = walk + 1
    /\ pc' = "mc_walks"
    /\ UNCHANGED <<loaderVars, graph, argVars, pprVars, curr, result>>

\* lines 403-419: the visit is counted and the walk follows an edge
MCMove ==
    /\ pc = "mc_visit"
    /\ InRange(graph, curr)
    /\ ISumRange(visits, 0, graph.num_nodes) < MaxVisits
    /\ \E d \in Draws : ~StopDraw(d, alpha) /\ draw' = d
    /\ graph.out_weight_sum[curr] # RZero
    /\ visits' = [visits EXCEPT ![curr] = @ + 1]
    /\ \E d2 \in Draws :
           curr' = SelectNext(graph, graph.row_ptr[curr], graph.row_ptr[curr + 1], RZero,
                              RMul(d2, graph.out_weight_sum[curr]), curr)
    /\ UNCHANGED <<pc, loaderVars, graph, argVars, pprVars, walk, result>>

\* line 403 with curr outside [0, N): visits[curr]++ writes outside the
\* vector and lines 407-416 read outside the graph's arrays.  The run dies,
\* or the write is lost and the walk ends or goes on at whatever id was read.
MCStray ==
    /\ pc = "mc_visit"
    /\ ~InRange(graph, curr)
    /\ \/ pc' = "crash" /\ UNCHANGED <<walk, curr>>
       \/ pc' = "mc_walks" /\ walk' = walk + 1 /\ UNCHANGED curr
       \/ pc' = "mc_visit" /\ curr' \in -1 .. graph.num_nodes /\ UNCHANGED walk
    /\ UNCHANGED <<loaderVars, graph, argVars, pprVars, visits, draw, result>>

\* lines 423-432
MCFinish ==
    /\ pc = "mc_walks"
    /\ ~(walk < total_walks)
    /\ result' = [scores |-> Normalize(visits, graph.num_nodes), iterations |-> total_walks]
    /\ pc' = "mc_done"
    /\ UNCHANGED <<loaderVars, graph, argVars, pprVars, mcVars>>

NextMC ==
    \/ ReadEngineLine \/ EndOfFile
    \/ MCStart \/ MCStartWalk \/ MCStop \/ MCDeadEnd \/ MCMove \/ MCStray \/ MCFinish

\* every draw of prob(gen) is independent, so a walk that can stop does
SpecMC ==
    /\ Init /\ [][NextMC]_vars
    /\ WF_vars(MCStartWalk) /\ WF_vars(MCStop) /\ WF_vars(MCDeadEnd) /\ WF_vars(MCFinish)

Next ==
    \/ ReadEngineLine \/ EndOfFile
    \/ PPRStart \/ PPRSweep \/ PPRAdvance \/ PPRReturn
    \/ MCStart \/ MCStartWalk \/ MCStop \/ MCDeadEnd \/ MCMove \/ MCStray \/ MCFinish

Spec == Init /\ [][Next]_vars

\* ------------------------------------------------------------------------
\* Properties of the loader
\* ------------------------------------------------------------------------
Built == pc # "read"

NumNodes == graph.num_nodes

IsDangling(u) == graph.out_weight_sum[u] = RZero

\* C1: every graph the loader builds over the N mapped nodes has row_ptr of
\* length N+1 starting at 0 and non-decreasing, row_ptr[N] = num_edges =
\* the length of col_indices and of edge_weights, and out_weight_sum[u]
\* equal to the sum of the weights in u's range, for every node u.
CSRInvariant ==
    Built =>
        LET N == Len(id_to_name)
            E == graph.num_edges
        IN  /\ graph.num_nodes = N
            /\ DOMAIN graph.row_ptr = 0 .. N
            /\ graph.row_ptr[0] = 0
            /\ \A u \in 0 .. N - 1 : graph.row_ptr[u] <= graph.row_ptr[u + 1]
            /\ graph.row_ptr[N] = E
            /\ E = Len(temp_edges)
            /\ DOMAIN graph.col_indices = 0 .. E - 1
            /\ DOMAIN graph.edge_weights = 0 .. E - 1
            /\ DOMAIN graph.out_weight_sum = 0 .. N - 1
            /\ \A u \in 0 .. N - 1 :
                   graph.out_weight_sum[u] =
                       RSumRange(graph.edge_weights, graph.row_ptr[u], graph.row_ptr[u + 1])

\* a built graph with three nodes, a node with two outgoing edges of
\* different weights and a dangling node
CSRWitness ==
    /\ Built
    /\ graph.num_nodes = 3
    /\ graph.num_edges = 3
    /\ \E u \in 0 .. 2 :
           /\ graph.row_ptr[u + 1] - graph.row_ptr[u] = 2
           /\ graph.edge_weights[graph.row_ptr[u]] # graph.edge_weights[graph.row_ptr[u] + 1]
    /\ \E u \in 0 .. 2 : IsDangling(u)

\* what each third column of the input means
WeightColumn(tok) ==
    CASE tok = <<"0">> -> [number |-> TRUE, val |-> RZero]
      [] tok = <<"2">> -> [number |-> TRUE, val |-> <<2, 1>>]
      [] tok = <<"-", "2", ".", "5">> -> [number |-> TRUE, val |-> <<-5, 2>>]
      [] OTHER -> [number |-> FALSE, val |-> RZero]

\* the weight the specification gives the edge of an input line
ExpectedWeight(ln) ==
    IF Len(ln) < 3 \/ ~WeightColumn(ln[3]).number THEN <<1, 1>>
    ELSE IF WeightColumn(ln[3]).val = RZero THEN <<1, 10000>>
    ELSE IF WeightColumn(ln[3]).val[1] < 0 THEN RNeg(WeightColumn(ln[3]).val)
    ELSE WeightColumn(ln[3]).val

\* the edge lines read whose source is node u, in input order
EdgeLinesFrom(u) ==
    SelectSeq(consumed,
              LAMBDA ln : /\ Len(ln) >= 2
                          /\ ln[1][1] \notin {"#", "%"}
                          /\ ln[1] = id_to_name[u + 1])

\* C8: every stored edge weight is strictly positive and is 1.0 for a line
\* without weight column, 1e-4 for a weight of exactly 0 and the absolute
\* value of the given weight otherwise; the edges of node u are those of the
\* input lines whose source is u.
WeightSanitization ==
    Built =>
        /\ \A k \in DOMAIN graph.edge_weights : RLt(RZero, graph.edge_weights[k])
        /\ \A u \in 0 .. graph.num_nodes - 1 :
               LET lns == EdgeLinesFrom(u)
               IN  /\ graph.row_ptr[u + 1] - graph.row_ptr[u] = Len(lns)
                   /\ \A j \in 1 .. Len(lns) :
                          /\ graph.edge_weights[graph.row_ptr[u] + j - 1] = ExpectedWeight(lns[j])
                          /\ id_to_name[graph.col_indices[graph.row_ptr[u] + j - 1] + 1] = lns[j][2]

\* a built graph that stores 1e-4 for an input 0, 2.5 for an input -2.5
\* and 1.0 for a line without weight
WeightSanitizationWitness ==
    /\ Built
    /\ \E i, j, k \in 1 .. Len(consumed) :
           /\ Len(consumed[i]) = 3 /\ consumed[i][3] = <<"0">>
           /\ Len(consumed[j]) = 3 /\ consumed[j][3] = <<"-", "2", ".", "5">>
           /\ Len(consumed[k]) = 2
    /\ \E a, b, c \in DOMAIN graph.edge_weights :
           /\ graph.edge_weights[a] = <<1, 10000>>
           /\ graph.edge_weights[b] = <<5, 2>>
           /\ graph.edge_weights[c] = <<1, 1>>


\* ------------------------------------------------------------------------
\* Properties of PPREngine::compute
\* ------------------------------------------------------------------------
InPPR == pc \in {"ppr_loop", "ppr_test", "ppr_return", "ppr_done"}
InMC == pc \in {"mc_walks", "mc_visit", "mc_done"}

SeedSet == {seeds[k] : k \in DOMAIN seeds}
SeedsValid == \A k \in DOMAIN seeds : InRange(graph, seeds[k])
SeedsDistinct == \A j, k \in DOMAIN seeds : j # k => seeds[j] # seeds[k]

Total(v) == RSumRange(v, 0, NumNodes)
Zeros == [i \in 0 .. NumNodes - 1 |-> RZero]

\* C2: for any graph and any non-empty seed list of valid ids the scores
\* held by PPREngine::compute sum to 1, initially, after every sweep and in
\* the result.
MassConservation ==
    (InPPR /\ Size(seeds) > 0 /\ SeedsValid) =>
        /\ Total(r) = ROne
        /\ pc = "ppr_test" => Total(r_new) = ROne
        /\ pc = "ppr_done" => Total(result.scores) = ROne

\* the same for seed lists without repeated ids
MassConservationDistinctSeeds == SeedsDistinct => MassConservation

InvalidSeedsRejected ==
    ((InPPR \/ InMC) /\ ~SeedsValid) =>
        /\ pc \notin {"ppr_done", "mc_done"}
        /\ pc = "mc_visit" => InRange(graph, curr)

\* C5: for a non-empty list of valid seeds, repeated ids included, p[i] is
\* 1/|S| for i in the set S of distinct seeds and 0 elsewhere, and p sums
\* to 1.
PersonalizationVector ==
    (InPPR /\ Size(seeds) > 0 /\ SeedsValid) =>
        /\ \A i \in 0 .. NumNodes - 1 :
               p[i] = IF i \in SeedSet THEN <<1, Cardinality(SeedSet)>> ELSE RZero
        /\ Total(p) = ROne

\* the same for seed lists without repeated ids
PersonalizationDistinctSeeds == SeedsDistinct => PersonalizationVector

L1Distance(x, y) == RSumRange([i \in 0 .. NumNodes - 1 |-> RAbs(RSub(x[i], y[i]))], 0, NumNodes)

\* C6: compute performs at most MaxIter sweeps; it goes on after a sweep
\* only if that sweep's L1 difference is not below epsilon and the limit is
\* not reached; it returns the iterate of the last sweep performed, and
\* iterationsUsed is the number of sweeps performed, MaxIter when none
\* converged.
SweepCountAndStopping ==
    InPPR =>
        /\ sweeps <= MaxIter
        /\ pc = "ppr_loop" =>
               /\ iter < MaxIter
               /\ sweeps = iter
               /\ sweeps > 0 => ~RLt(diff, epsilon)
        /\ pc = "ppr_test" =>
               /\ diff = L1Distance(r_new, r)
               /\ sweeps = iter + 1
        /\ pc \in {"ppr_return", "ppr_done"} =>
               /\ r = r_new
               /\ iter_count = sweeps
               /\ sweeps >= 1
               /\ RLt(diff, epsilon) \/ sweeps = MaxIter
        /\ pc = "ppr_done" =>
               /\ result.scores = r_new
               /\ result.iterations = sweeps

\* compute has returned after MaxIter sweeps none of which converged, the
\* last one having changed the iterate
SweepLimitWitness ==
    /\ pc = "ppr_done"
    /\ result.iterations = MaxIter
    /\ ~RLt(diff, epsilon)
    /\ diff # RZero

\* compute has returned after a third sweep, the first to converge
ThirdSweepConverged ==
    /\ pc = "ppr_done"
    /\ result.iterations = 3
    /\ RLt(diff, epsilon)

\* the node whose range holds edge k
SourceOf(k) == CHOOSE u \in 0 .. NumNodes - 1 : graph.row_ptr[u] <= k /\ k < graph.row_ptr[u + 1]

\* the share of r that edge k carries to its destination
EdgeShare(k) ==
    RMul(r[SourceOf(k)], RDiv(graph.edge_weights[k], graph.out_weight_sum[SourceOf(k)]))

\* the mass arriving at node i over its incoming edges
Scattered(i) ==
    RSumRange([k \in 0 .. graph.num_edges - 1 |->
                  IF graph.col_indices[k] = i THEN EdgeShare(k) ELSE RZero],
              0, graph.num_edges)

DanglingMass ==
    RSumRange([u \in 0 .. NumNodes - 1 |-> IF IsDangling(u) THEN r[u] ELSE RZero], 0, NumNodes)

\* C9: after a sweep, dead_mass is the sum of r[u] over the dangling nodes,
\* every node's mass went either over its edges or into dead_mass, and
\* r_new[i] = (1-alpha)*scattered[i] + alpha*p[i] + (1-alpha)*dead_mass*p[i].
SweepRule ==
    pc = "ppr_test" =>
        /\ dead_mass = DanglingMass
        /\ RAdd(RSumRange([i \in 0 .. NumNodes - 1 |-> Scattered(i)], 0, NumNodes), dead_mass)
               = Total(r)
        /\ \A i \in 0 .. NumNodes - 1 :
               r_new[i] =
                   RAdd(RAdd(RMul(RSub(ROne, alpha), Scattered(i)), RMul(alpha, p[i])),
                        RMul(RSub(ROne, alpha), RMul(dead_mass, p[i])))

\* a sweep with 0 < alpha < 1 in which a dangling node held mass, another
\* node scattered mass over two edges and p is not uniform
SweepRuleWitness ==
    /\ pc = "ppr_test"
    /\ alpha = <<1, 2>>
    /\ dead_mass # RZero
    /\ dead_mass # ROne
    /\ \E u \in 0 .. NumNodes - 1 :
           /\ graph.row_ptr[u + 1] - graph.row_ptr[u] = 2
           /\ r[u] # RZero
    /\ \E i, j \in 0 .. NumNodes - 1 : p[i] # p[j]

\* ------------------------------------------------------------------------
\* Properties of MonteCarloEngine::compute
\* ------------------------------------------------------------------------
TotalVisits == ISumRange(visits, 0, NumNodes)

ValidWalks == InMC /\ Size(seeds) > 0 /\ SeedsValid

\* C7: for non-empty valid seeds every finished walk has recorded a visit,
\* so with totalWalks > 0 the visits total at least totalWalks, and the
\* scores are visits[i] / total, non-negative, summing to 1; with
\* totalWalks = 0 all scores are 0.
WalkMassConservation ==
    ValidWalks =>
        /\ TotalVisits >= walk
        /\ pc = "mc_done" =>
               /\ walk = total_walks
               /\ DOMAIN result.scores = 0 .. NumNodes - 1
               /\ total_walks > 0 =>
                      /\ TotalVisits >= total_walks
                      /\ \A i \in 0 .. NumNodes - 1 :
                             /\ result.scores[i][1] * TotalVisits = visits[i] * result.scores[i][2]
                             /\ RLe(RZero, result.scores[i])
                      /\ Total(result.scores) = ROne
               /\ total_walks = 0 => result.scores = Zeros

\* two walks have been normalized that visited more nodes than there were
\* walks
WalkMassWitness ==
    /\ pc = "mc_done"
    /\ ValidWalks
    /\ total_walks = 2
    /\ TotalVisits > 2
    /\ \E i, j \in 0 .. NumNodes - 1 : i # j /\ visits[i] > 0 /\ visits[j] > 0

Destinations(u) == {graph.col_indices[k] : k \in graph.row_ptr[u] .. graph.row_ptr[u + 1] - 1}

StopDrawn == RLt(draw, alpha)

\* what one step of a walk over valid seeds does
WalkStep ==
    ValidWalks =>
        /\ (pc = "mc_walks" /\ pc' = "mc_visit") => curr' \in SeedSet /\ walk < total_walks
        /\ pc = "mc_visit" =>
               /\ visits' = [visits EXCEPT ![curr] = @ + 1]
               /\ pc' = "mc_walks" =>
                      /\ StopDrawn' \/ IsDangling(curr)
                      /\ walk' = walk + 1
               /\ pc' = "mc_visit" =>
                      /\ ~StopDrawn'
                      /\ ~IsDangling(curr)
                      /\ curr' \in Destinations(curr)
                      /\ walk' = walk
        /\ pc' = "mc_done" => walk = total_walks /\ result'.iterations = total_walks

CurrentNodeValid == (ValidWalks /\ pc = "mc_visit") => InRange(graph, curr)

WalksRunning == ValidWalks /\ RLt(RZero, alpha)

\* at every visit of a walk some draw ends the walk there
StopAlwaysPossible == (WalksRunning /\ pc = "mc_visit") => ENABLED MCStop

WalksReturned == pc = "mc_done" /\ walk = total_walks /\ result.iterations = total_walks

\* C10: for alpha in (0,1] and non-empty valid seeds every walk starts at a
\* seed, counts the visit before it tests for a stop, ends exactly when the
\* draw is below alpha or the node is dangling and otherwise moves along an
\* outgoing edge, so the current node is always in [0, N) and a walk can
\* stop at every visit; with the stop draw fairly taken compute returns,
\* after exactly totalWalks walks, and reports totalWalks.
WalksTerminate ==
    /\ []CurrentNodeValid
    /\ []StopAlwaysPossible
    /\ [][WalkStep]_vars
    /\ WalksRunning ~> WalksReturned

\* compute has returned after a single walk that came back to a node it
\* had visited, over valid seeds
WalksTerminateWitness ==
    /\ pc = "mc_done"
    /\ ValidWalks
    /\ RLt(RZero, alpha)
    /\ total_walks = 1
    /\ \E i \in 0 .. NumNodes - 1 : visits[i] >= 2
    /\ \E i, j \in 0 .. NumNodes - 1 : i # j /\ visits[i] > 0 /\ visits[j] > 0

=============================================================================
